---- MODULE Spec2Model ----
(***************************************************************************)
(* Model of the encoder library of devborlot/Encoder (src/encoder.rs):     *)
(* the duration corrector, the filter graph composer, the audio policy     *)
(* and the bitrate budget of the agency (preview) encode.                  *)
(*                                                                         *)
(* Durations.  duration_raw is an f64.  The model keeps the f64 values     *)
(* that are whole multiples of 2^-14 s ("ticks"); on these values the      *)
(* subtraction raw - target, the comparison with 0.001 and the decimal     *)
(* rounding of {:.4} are exact, so the operators below compute what the    *)
(* code computes.  0.001 s is 16.384 ticks and 0.0001 s is 1.6384 ticks.   *)
(***************************************************************************)
EXTENDS Integers, Sequences, FiniteSets, TLC

\* ---------------------------------------------------------------- bounds
MaxDurationSecs == 360
FineSecs == 2
MaxChannels == 5
NearWindow == 34
MaxTieSteps == 48
MaxNameLen == 5
MaxCode == 100
MaxProbeSecs == 3
MaxBatch == 2
MaxEncodes == 2

\* ------------------------------------------------------ program constants
Unit == 16384
SlateDuration == 5
BlackDuration == 2
TargetKbits == 56000
AudioKbps == 160
FallbackKbps == 3000
MinKbps == 500
MaxKbps == 5000

Abs(x) == IF x < 0 THEN -x ELSE x

Max(a, b) == IF a >= b THEN a ELSE b

Min(a, b) == IF a <= b THEN a ELSE b

\* ------------------------------------------------------------- the inputs
\* Offsets of duration_raw from duration_secs, in ticks: every tick within
\* NearWindow of the target (the 0.0005 s, 0.001 s and 0.002 s cases lie
\* there) and the multiples of 1/32 s up to 1.5 s, where {:.4} meets an
\* exact tie.
TieStep == Unit \div 32

Offsets ==
  (-NearWindow .. NearWindow) \cup
  { j * TieStep : j \in -MaxTieSteps .. MaxTieSteps }

\* The offsets tried with the long durations.
CoarseOffsets == { -TieStep, 0, TieStep }

\* The VideoMetadata values handed to the encoder: every offset with the
\* durations up to FineSecs, the coarse offsets with the longer ones.
\* width, height and the probed frame rate are fields of the struct that
\* encoder.rs never reads.
Metadata(s, o, ha, ch) ==
  [ duration_secs |-> s, duration_raw |-> s * Unit + o,
    has_audio |-> ha, audio_channels |-> ch ]

VideoMetadata ==
  { m \in { Metadata(s, o, ha, ch) :
              s \in 0 .. FineSecs, o \in Offsets,
              ha \in BOOLEAN, ch \in 0 .. MaxChannels }
          \cup
          { Metadata(s, o, ha, ch) :
              s \in 0 .. MaxDurationSecs, o \in CoarseOffsets,
              ha \in BOOLEAN, ch \in 0 .. MaxChannels } :
    m.duration_raw >= 0 }

NoCmd == [ built |-> FALSE ]

\* The encoder library: the metadata of the job, where the job stands and
\* the two ffmpeg command lines.
VARIABLES metadata, pc, mxf_cmd, agency_cmd

\* The command line and the window around it: the filename and table given
\* to the registration resolver (reg), the front-end that runs (front), the
\* loaded table (codes), the video files at hand (videos), the batch loop
\* (cli), the window (gui), its background threads with their channels
\* (workers) and the temporary slate file (temp_slate).
VARIABLES reg, front, codes, videos, cli, gui, workers, temp_slate

encVars == << metadata, pc, mxf_cmd, agency_cmd >>

appVars == << reg, front, codes, videos, cli, gui, workers, temp_slate >>

vars == << metadata, pc, mxf_cmd, agency_cmd,
           reg, front, codes, videos, cli, gui, workers, temp_slate >>

\* ------------------------------------------------------- filter fragments
Scale(w, h) == [ name |-> "scale", w |-> w, h |-> h ]

Fps(n, d) == [ name |-> "fps", num |-> n, den |-> d ]

Format(p) == [ name |-> "format", pix_fmt |-> p ]

SetField(mode) == [ name |-> "setfield", mode |-> mode ]

HwDownload == [ name |-> "hwdownload" ]

Trim(secs) == [ name |-> "trim", duration |-> secs ]

SetPts == [ name |-> "setpts", expr |-> "PTS-STARTPTS" ]

\* stop_duration is printed with four decimals: the field counts 0.0001 s.
TPad(d4) == [ name |-> "tpad", stop_mode |-> "clone", stop_duration |-> d4 ]

Concat(n, v, a) == [ name |-> "concat", n |-> n, v |-> v, a |-> a ]

ANullSrc(d) == [ name |-> "anullsrc", r |-> 48000, cl |-> "4c", d |-> d ]

AResample(r) == [ name |-> "aresample", r |-> r ]

LoudNorm == [ name |-> "loudnorm", I |-> -24, TP |-> -3, LRA |-> 18 ]

\* pan=4c|c0=..|c1=..|c2=..|c3=..: one <<gain, source channel>> pair per
\* output channel.
Pan(gains) == [ name |-> "pan", cl |-> "4c", gains |-> gains ]

Fragment(ins, chain, out) == [ ins |-> ins, chain |-> chain, out |-> out ]

\* ------------------------------------------------------ number formatting
\* format!("{target}") of an f64 holding a whole number of seconds.
FormatSeconds(ticks) == ticks \div Unit

\* Mutant of FormatFixed4: the digits after the fourth are cut off.
FormatFixed4_truncate(ticks) == (ticks * 10000) \div Unit

\* format!("{x:.4}"): x rounded to four decimals, an exact tie going to the
\* even digit.  The result counts units of 0.0001 s.
FormatFixed4(ticks) ==
  LET q == (ticks * 10000) \div Unit
      r == (ticks * 10000) % Unit
  IN  IF 2 * r > Unit \/ (2 * r = Unit /\ q % 2 = 1) THEN q + 1 ELSE q

\* ------------------------------------------------------ duration corrector
\* Mutant of RoundSecs: the fraction is cut off.
RoundSecs_floor(ticks) == ticks \div Unit

\* f64::round: to the nearest whole second, a half going away from zero.
RoundSecs(ticks) == (2 * ticks + Unit) \div (2 * Unit)

\* Mutant of duration_adjust_filter: the decision compares the rounded
\* values instead of the difference.
duration_adjust_filter_rounded(m) ==
  LET target == m.duration_secs * Unit
      raw == m.duration_raw
      diff == raw - target
  IN  IF RoundSecs(raw) = m.duration_secs
      THEN << >>
      ELSE IF diff > 0
           THEN << Trim(FormatSeconds(target)), SetPts >>
           ELSE LET pad_duration == -diff
                IN  << TPad(FormatFixed4(pad_duration)) >>

duration_adjust_filter(m) ==
  LET target == m.duration_secs * Unit
      raw == m.duration_raw
      diff == raw - target
  IN  IF Abs(diff) * 1000 < Unit
      THEN << >>
      ELSE IF diff > 0
           THEN << Trim(FormatSeconds(target)), SetPts >>
           ELSE LET pad_duration == -diff
                IN  << TPad(FormatFixed4(pad_duration)) >>

\* --------------------------------------------------------- audio policy
\* Mutant of build_audio_filters: the four-channel mapping starts above
\* four channels.
build_audio_filters_above4(m, silence_duration) ==
  LET silence == Fragment(<< >>, << ANullSrc(silence_duration) >>, "silence")
      amain ==
        IF ~ m.has_audio
        THEN Fragment(<< >>, << ANullSrc(m.duration_secs) >>, "amain")
        ELSE IF m.audio_channels > 4
             THEN Fragment(<< "2:a" >>,
                    << AResample(48000), LoudNorm,
                       Pan(<< <<1, 0>>, <<1, 1>>, <<1, 2>>, <<1, 3>> >>) >>,
                    "amain")
             ELSE Fragment(<< "2:a" >>,
                    << AResample(48000), LoudNorm,
                       Pan(<< <<1, 0>>, <<1, 1>>, <<0, 0>>, <<0, 0>> >>) >>,
                    "amain")
  IN  << silence, amain,
         Fragment(<< "silence", "amain" >>, << Concat(2, 0, 1) >>, "aout") >>

\* Mutant of build_audio_filters: the silence branch is an if without else,
\* taken also for a source audio stream of 0 channels, and the mapping is
\* pushed after it.
build_audio_filters_no_else(m, silence_duration) ==
  LET silence == Fragment(<< >>, << ANullSrc(silence_duration) >>, "silence")
      generated ==
        IF ~ m.has_audio \/ m.audio_channels = 0
        THEN << Fragment(<< >>, << ANullSrc(m.duration_secs) >>, "amain") >>
        ELSE << >>
      mapped ==
        IF ~ m.has_audio
        THEN << >>
        ELSE IF m.audio_channels >= 4
             THEN << Fragment(<< "2:a" >>,
                      << AResample(48000), LoudNorm,
                         Pan(<< <<1, 0>>, <<1, 1>>, <<1, 2>>, <<1, 3>> >>) >>,
                      "amain") >>
             ELSE << Fragment(<< "2:a" >>,
                      << AResample(48000), LoudNorm,
                         Pan(<< <<1, 0>>, <<1, 1>>, <<0, 0>>, <<0, 0>> >>) >>,
                      "amain") >>
  IN  << silence >> \o generated \o mapped \o
      << Fragment(<< "silence", "amain" >>, << Concat(2, 0, 1) >>, "aout") >>

\* Mutant of build_audio_filters: the mapping of fewer than four channels
\* keeps the layout of the source (no pan).
build_audio_filters_no_pan(m, silence_duration) ==
  LET silence == Fragment(<< >>, << ANullSrc(silence_duration) >>, "silence")
      amain ==
        IF ~ m.has_audio
        THEN Fragment(<< >>, << ANullSrc(m.duration_secs) >>, "amain")
        ELSE IF m.audio_channels >= 4
             THEN Fragment(<< "2:a" >>,
                    << AResample(48000), LoudNorm,
                       Pan(<< <<1, 0>>, <<1, 1>>, <<1, 2>>, <<1, 3>> >>) >>,
                    "amain")
             ELSE Fragment(<< "2:a" >>, << AResample(48000), LoudNorm >>, "amain")
  IN  << silence, amain,
         Fragment(<< "silence", "amain" >>, << Concat(2, 0, 1) >>, "aout") >>

build_audio_filters(m, silence_duration) ==
  LET silence == Fragment(<< >>, << ANullSrc(silence_duration) >>, "silence")
      amain ==
        IF ~ m.has_audio
        THEN Fragment(<< >>, << ANullSrc(m.duration_secs) >>, "amain")
        ELSE IF m.audio_channels >= 4
             THEN Fragment(<< "2:a" >>,
                    << AResample(48000), LoudNorm,
                       Pan(<< <<1, 0>>, <<1, 1>>, <<1, 2>>, <<1, 3>> >>) >>,
                    "amain")
             ELSE Fragment(<< "2:a" >>,
                    << AResample(48000), LoudNorm,
                       Pan(<< <<1, 0>>, <<1, 1>>, <<0, 0>>, <<0, 0>> >>) >>,
                    "amain")
  IN  << silence, amain,
         Fragment(<< "silence", "amain" >>, << Concat(2, 0, 1) >>, "aout") >>

\* ------------------------------------------------- filter graph composer
\* Mutant of build_filter_complex: the audio fragments are pushed before the
\* video fragments.
build_filter_complex_audio_first(m, silence_duration) ==
  LET dur_adjust == duration_adjust_filter(m)
      parts ==
        << Fragment(<< "0:v" >>,
             << Scale(1920, 1080), Fps(30000, 1001), Format("yuv422p"),
                SetField("tff") >>, "slate"),
           Fragment(<< "1:v" >>,
             << Format("yuv422p"), SetField("tff") >>, "black"),
           Fragment(<< "2:v" >>,
             << HwDownload, Format("nv12"), Scale(1920, 1080),
                Fps(30000, 1001) >> \o dur_adjust \o
             << Format("yuv422p"), SetField("tff") >>, "main"),
           Fragment(<< "slate", "black", "main" >>,
             << Concat(3, 1, 0) >>, "vout") >>
  IN  build_audio_filters(m, silence_duration) \o parts

build_filter_complex(m, silence_duration) ==
  LET dur_adjust == duration_adjust_filter(m)
      parts ==
        << Fragment(<< "0:v" >>,
             << Scale(1920, 1080), Fps(30000, 1001), Format("yuv422p"),
                SetField("tff") >>, "slate"),
           Fragment(<< "1:v" >>,
             << Format("yuv422p"), SetField("tff") >>, "black"),
           Fragment(<< "2:v" >>,
             << HwDownload, Format("nv12"), Scale(1920, 1080),
                Fps(30000, 1001) >> \o dur_adjust \o
             << Format("yuv422p"), SetField("tff") >>, "main"),
           Fragment(<< "slate", "black", "main" >>,
             << Concat(3, 1, 0) >>, "vout") >>
  IN  parts \o build_audio_filters(m, silence_duration)

\* The comparisons of stage formats the composer makes before it emits the
\* video concat: build_filter_complex writes the three chains and compares
\* nothing.
ComposerChecks == { }

\* The three inputs encode() hands to ffmpeg, as the stream each declares.
\* 0 stands for a size or rate the command line does not fix.
SlateInput ==
  [ index |-> 0, t |-> SlateDuration, w |-> 0, h |-> 0,
    fps_num |-> 30000, fps_den |-> 1001, pix_fmt |-> "image", field |-> "input" ]

\* Mutant of BlackInput: the colour source is left at the lavfi default
\* rate.
BlackInput_default_rate ==
  [ index |-> 1, t |-> BlackDuration, w |-> 1920, h |-> 1080,
    fps_num |-> 25, fps_den |-> 1, pix_fmt |-> "lavfi", field |-> "input" ]

BlackInput ==
  [ index |-> 1, t |-> BlackDuration, w |-> 1920, h |-> 1080,
    fps_num |-> 30000, fps_den |-> 1001, pix_fmt |-> "lavfi", field |-> "input" ]

SourceInput ==
  [ index |-> 2, t |-> 0, w |-> 0, h |-> 0,
    fps_num |-> 0, fps_den |-> 0, pix_fmt |-> "cuda", field |-> "input" ]

\* ------------------------------------------------------- bitrate budget
\* u64 division: a zero divisor panics.
Panic == -1

CheckedDiv(a, b) == IF b = 0 THEN Panic ELSE a \div b

\* Mutant of SaturatingSub: a plain unsigned subtraction, which wraps around
\* to a huge value when a < b (2^31 stands for the 2^64 of a u64).
WrappingSub(a, b) ==
  IF a = Panic THEN Panic ELSE IF a >= b THEN a - b ELSE (2147483647 - (b - a)) + 1

SaturatingSub(a, b) == IF a = Panic THEN Panic ELSE IF a >= b THEN a - b ELSE 0

Clamp(v) == IF v = Panic THEN Panic ELSE Min(Max(v, MinKbps), MaxKbps)

\* Mutant of VideoKbps: the fallback is taken for durations up to 1.
VideoKbps_guard_above_one(duration_secs) ==
  LET target_kbits == TargetKbits
      audio_kbps == AudioKbps
      video_kbps ==
        IF duration_secs > 1
        THEN SaturatingSub(CheckedDiv(target_kbits, duration_secs), audio_kbps)
        ELSE FallbackKbps
  IN  Clamp(video_kbps)

\* Mutant of VideoKbps: the division is not guarded.
VideoKbps_unguarded(duration_secs) ==
  LET target_kbits == TargetKbits
      audio_kbps == AudioKbps
      video_kbps ==
        SaturatingSub(CheckedDiv(target_kbits, duration_secs), audio_kbps)
  IN  Clamp(video_kbps)

VideoKbps(duration_secs) ==
  LET target_kbits == TargetKbits
      audio_kbps == AudioKbps
      video_kbps ==
        IF duration_secs > 0
        THEN SaturatingSub(CheckedDiv(target_kbits, duration_secs), audio_kbps)
        ELSE FallbackKbps
  IN  Clamp(video_kbps)

\* ------------------------------------------------------ the command lines
\* Mutant of MxfCmd: the silence covers the slate only.
MxfCmd_slate_only(m) ==
  LET slate_duration == SlateDuration
      black_duration == BlackDuration
      silence_duration == slate_duration
      filter_complex == build_filter_complex(m, silence_duration)
  IN  [ built |-> TRUE,
        inputs |-> << SlateInput, BlackInput, SourceInput >>,
        filter_complex |-> filter_complex,
        map |-> << "vout", "aout" >>,
        pix_fmt |-> "yuv422p", top |-> 1,
        ar |-> 48000, ac |-> 4,
        total |-> silence_duration + m.duration_secs ]

\* The ffmpeg command encode() builds for metadata m.
MxfCmd(m) ==
  LET slate_duration == SlateDuration
      black_duration == BlackDuration
      silence_duration == slate_duration + black_duration
      filter_complex == build_filter_complex(m, silence_duration)
  IN  [ built |-> TRUE,
        inputs |-> << SlateInput, BlackInput, SourceInput >>,
        filter_complex |-> filter_complex,
        map |-> << "vout", "aout" >>,
        pix_fmt |-> "yuv422p", top |-> 1,
        ar |-> 48000, ac |-> 4,
        total |-> silence_duration + m.duration_secs ]

\* Mutant of AgencyCmd: the buffer size is twice the target, as the max rate.
AgencyCmd_bufsize_twice(m) ==
  LET video_kbps == VideoKbps(m.duration_secs)
      dur_adjust == duration_adjust_filter(m)
  IN  IF video_kbps = Panic
      THEN NoCmd
      ELSE [ built |-> TRUE,
             vf |-> << HwDownload, Format("nv12"), Scale(1920, 1080),
                       Fps(30000, 1001) >> \o dur_adjust,
             b_v |-> video_kbps,
             maxrate |-> video_kbps * 2,
             bufsize |-> video_kbps * 2,
             b_a |-> AudioKbps,
             t |-> m.duration_secs ]

\* The ffmpeg command encode_agency() builds for metadata m; none when the
\* bitrate computation panics.
AgencyCmd(m) ==
  LET video_kbps == VideoKbps(m.duration_secs)
      dur_adjust == duration_adjust_filter(m)
  IN  IF video_kbps = Panic
      THEN NoCmd
      ELSE [ built |-> TRUE,
             vf |-> << HwDownload, Format("nv12"), Scale(1920, 1080),
                       Fps(30000, 1001) >> \o dur_adjust,
             b_v |-> video_kbps,
             maxrate |-> video_kbps * 2,
             bufsize |-> video_kbps * 4,
             b_a |-> AudioKbps,
             t |-> m.duration_secs ]

\* ----------------------------------------------------------------- actions
\* The library called on its own: no front-end, no file, no thread.
AppIdle ==
  /\ reg = [ task |-> "none" ]
  /\ front = "lib"
  /\ codes = << >>
  /\ videos = << >>
  /\ cli = [ at |-> "none" ]
  /\ gui = [ at |-> "none" ]
  /\ workers = << >>
  /\ temp_slate = << >>

Init ==
  /\ metadata \in VideoMetadata
  /\ pc = "ready"
  /\ mxf_cmd = NoCmd
  /\ agency_cmd = NoCmd
  /\ AppIdle

\* encode(): build the graph and the ffmpeg command, run it; ok is the exit
\* status of ffmpeg.
Encode(ok) ==
  /\ pc = "ready"
  /\ mxf_cmd' = MxfCmd(metadata)
  /\ pc' = IF ok THEN "mxf_done" ELSE "failed"
  /\ UNCHANGED << metadata, agency_cmd >>
  /\ UNCHANGED appVars

\* encode_agency(): bitrate budget, -vf chain and the ffmpeg command.
EncodeAgency(ok) ==
  /\ pc = "mxf_done"
  /\ IF AgencyCmd(metadata) = NoCmd
     THEN /\ pc' = "panicked"
          /\ UNCHANGED agency_cmd
     ELSE /\ agency_cmd' = AgencyCmd(metadata)
          /\ pc' = IF ok THEN "done" ELSE "failed"
  /\ UNCHANGED << metadata, mxf_cmd >>
  /\ UNCHANGED appVars

Next ==
  \/ \E ok \in BOOLEAN : Encode(ok)
  \/ \E ok \in BOOLEAN : EncodeAgency(ok)

Spec == Init /\ [][Next]_vars

\* ------------------------------------------------- reading a built graph
Delta == metadata.duration_raw - metadata.duration_secs * Unit

Count(chain, n) == Cardinality({ i \in 1 .. Len(chain) : chain[i].name = n })

Producers(graph, label) == { i \in 1 .. Len(graph) : graph[i].out = label }

Stage(graph, label) == graph[CHOOSE i \in Producers(graph, label) : TRUE]

FilterOf(chain, n) == chain[CHOOSE i \in 1 .. Len(chain) : chain[i].name = n]

\* What the duration fragment inlined in a chain is.
IsEmptyAdjust(chain) ==
  Count(chain, "trim") = 0 /\ Count(chain, "setpts") = 0 /\ Count(chain, "tpad") = 0

IsTrimAdjust(chain) ==
  Count(chain, "trim") = 1 /\ Count(chain, "setpts") = 1 /\ Count(chain, "tpad") = 0

IsPadAdjust(chain) ==
  Count(chain, "trim") = 0 /\ Count(chain, "setpts") = 0 /\ Count(chain, "tpad") = 1

DurationDecision(chain) ==
  /\ Count(chain, "trim") = 0 \/ Count(chain, "tpad") = 0
  /\ IsEmptyAdjust(chain) \/ IsTrimAdjust(chain) \/ IsPadAdjust(chain)
  /\ IsEmptyAdjust(chain) <=> Abs(Delta) * 1000 < Unit
  /\ IsTrimAdjust(chain) <=> Delta * 1000 >= Unit
  /\ IsPadAdjust(chain) <=> Delta * 1000 <= -Unit
  \* -0.0005 s lies between ticks -9 and -8, +0.002 s between 32 and 33
  /\ Delta \in { -9, -8 } => IsEmptyAdjust(chain)
  /\ Delta \in { 32, 33 } => IsTrimAdjust(chain)

\* C1: for every raw duration and target the corrector emits exactly one of
\* empty, trim and pad, decided on delta = raw - target with 1 ms precision
\* (empty iff |delta| < 0.001, trim iff delta >= 0.001, pad iff
\* delta <= -0.001), and never a trim together with a tpad; this holds of the
\* fragment inlined in the [main] stage and of the one in the agency -vf.
C1_DurationDecision ==
  /\ mxf_cmd.built => DurationDecision(Stage(mxf_cmd.filter_complex, "main").chain)
  /\ agency_cmd.built => DurationDecision(agency_cmd.vf)

C1_Witness ==
  /\ mxf_cmd.built
  /\ Delta = 17
  /\ IsTrimAdjust(Stage(mxf_cmd.filter_complex, "main").chain)

\* The trim fragment: cut at the target, then reset the timebase.
TrimToTarget(chain) ==
  IsTrimAdjust(chain) =>
    \E i \in 1 .. Len(chain) - 1 :
      /\ chain[i].name = "trim"
      /\ chain[i].duration = metadata.duration_secs
      /\ chain[i + 1] = SetPts

EmptyOnlyNearTarget(chain) == IsEmptyAdjust(chain) => Abs(Delta) * 1000 < Unit

\* stop_duration counts 0.0001 s and Delta counts 1/Unit s.
PadExact(chain) ==
  IsPadAdjust(chain) =>
    /\ FilterOf(chain, "tpad").stop_mode = "clone"
    /\ FilterOf(chain, "tpad").stop_duration * Unit = (-Delta) * 10000

PadToFourDecimals(chain) ==
  IsPadAdjust(chain) =>
    /\ FilterOf(chain, "tpad").stop_mode = "clone"
    /\ 2 * Abs(FilterOf(chain, "tpad").stop_duration * Unit - (-Delta) * 10000) <= Unit

\* C2 as stated: the pad fragment holds the last frame for exactly
\* target - raw seconds, so that raw + pad = target.
C2_Original ==
  mxf_cmd.built =>
    LET chain == Stage(mxf_cmd.filter_complex, "main").chain
    IN  TrimToTarget(chain) /\ PadExact(chain) /\ EmptyOnlyNearTarget(chain)

\* C2: a trim fragment cuts to exactly target_seconds and is followed by the
\* timebase reset; a pad fragment holds (clones) the last frame for
\* target - raw seconds rounded to four decimals, so raw + pad is within
\* 0.00005 s of target; the empty fragment is emitted only within 1 ms of
\* target.
C2_FragmentReachesTarget ==
  mxf_cmd.built =>
    LET chain == Stage(mxf_cmd.filter_complex, "main").chain
    IN  TrimToTarget(chain) /\ PadToFourDecimals(chain) /\ EmptyOnlyNearTarget(chain)

C2_Witness ==
  /\ mxf_cmd.built
  /\ Delta = -17
  /\ IsPadAdjust(Stage(mxf_cmd.filter_complex, "main").chain)
  /\ FilterOf(Stage(mxf_cmd.filter_complex, "main").chain, "tpad").stop_duration = 10

\* ------------------------------------------------------------ audio policy
IsSilenceOnly(f) ==
  /\ f.ins = << >>
  /\ Len(f.chain) = 1
  /\ f.chain[1].name = "anullsrc"

IsMapping(f) ==
  /\ f.ins = << "2:a" >>
  /\ Count(f.chain, "pan") = 1
  /\ Count(f.chain, "anullsrc") = 0
  /\ Len(FilterOf(f.chain, "pan").gains) = 4

\* output channel c (0-based) takes source channel c at gain 1
PassesThrough(f, c) == FilterOf(f.chain, "pan").gains[c + 1] = << 1, c >>

Zeroed(f, c) == FilterOf(f.chain, "pan").gains[c + 1][1] = 0

IsMapFour(f) == IsMapping(f) /\ \A c \in 0 .. 3 : PassesThrough(f, c)

IsMapLow(f) ==
  /\ IsMapping(f)
  /\ PassesThrough(f, 0) /\ PassesThrough(f, 1)
  /\ Zeroed(f, 2) /\ Zeroed(f, 3)

\* C3: without source audio [amain] is generated silence of duration_secs
\* seconds whatever audio_channels is; with 1..3 channels c0->c0, c1->c1 and
\* output channels 2 and 3 are at zero gain; with 4 or more channels the
\* first four pass through positionally and none is zeroed.
C3_AudioPolicy ==
  mxf_cmd.built =>
    LET amain == Stage(mxf_cmd.filter_complex, "amain")
    IN  /\ ~ metadata.has_audio =>
             /\ IsSilenceOnly(amain)
             /\ amain.chain[1].d = metadata.duration_secs
        /\ (metadata.has_audio /\ metadata.audio_channels \in 1 .. 3) =>
             IsMapLow(amain)
        /\ (metadata.has_audio /\ metadata.audio_channels >= 4) =>
             /\ IsMapFour(amain)
             /\ \A c \in 0 .. 3 : ~ Zeroed(amain, c)

C3_Witness ==
  /\ mxf_cmd.built
  /\ metadata.has_audio
  /\ metadata.audio_channels = 4
  /\ IsMapFour(Stage(mxf_cmd.filter_complex, "amain"))

\* C4: every (has_audio, audio_channels) pair, has_audio with 0 channels
\* included, gets exactly one [amain] fragment, of exactly one of the three
\* variants; composing never fails.
C4_OneSourceAudioFragment ==
  pc # "ready" =>
    /\ mxf_cmd.built
    /\ Cardinality(Producers(mxf_cmd.filter_complex, "amain")) = 1
    /\ LET amain == Stage(mxf_cmd.filter_complex, "amain")
       IN  Cardinality({ v \in { "silence", "four", "low" } :
                           \/ v = "silence" /\ IsSilenceOnly(amain)
                           \/ v = "four" /\ IsMapFour(amain)
                           \/ v = "low" /\ IsMapLow(amain) }) = 1

C4_Witness ==
  /\ mxf_cmd.built
  /\ metadata.has_audio
  /\ metadata.audio_channels = 0
  /\ IsMapLow(Stage(mxf_cmd.filter_complex, "amain"))

\* ------------------------------------------------------------ graph order
GraphLabels == { "slate", "black", "main", "vout", "silence", "amain", "aout" }

InputLabels == { "0:v", "1:v", "2:v", "2:a" }

Outs(graph) == [ i \in 1 .. Len(graph) |-> graph[i].out ]

\* C5: the graph is the fixed sequence slate, black, main, video concat
\* [vout], lead-in silence, [amain], audio concat [aout]; every label a
\* fragment consumes is an ffmpeg input or is produced exactly once by an
\* earlier fragment, and [vout] and [aout] are each produced exactly once.
C5_GraphOrder ==
  mxf_cmd.built =>
    LET g == mxf_cmd.filter_complex
    IN  /\ Outs(g) = << "slate", "black", "main", "vout", "silence", "amain", "aout" >>
        /\ g[4].ins = << "slate", "black", "main" >>
        /\ g[4].chain = << Concat(3, 1, 0) >>
        /\ g[7].ins = << "silence", "amain" >>
        /\ g[7].chain = << Concat(2, 0, 1) >>
        /\ \A i \in 1 .. Len(g) : \A k \in 1 .. Len(g[i].ins) :
             \/ g[i].ins[k] \in InputLabels
             \/ /\ Cardinality(Producers(g, g[i].ins[k])) = 1
                /\ \A j \in Producers(g, g[i].ins[k]) : j < i
        /\ \A l \in GraphLabels : Cardinality(Producers(g, l)) = 1
        /\ mxf_cmd.map = << "vout", "aout" >>

C5_Witness ==
  /\ mxf_cmd.built
  /\ metadata.has_audio
  /\ IsTrimAdjust(mxf_cmd.filter_complex[3].chain)
  /\ Len(mxf_cmd.filter_complex) = 7

\* ------------------------------------------------------- stage formats
\* The format a chain declares for its output: each of scale, fps, format
\* and setfield fixes the property it names, the other filters keep it.
ApplyFilter(f, fmt) ==
  CASE f.name = "scale" -> [ fmt EXCEPT !.w = f.w, !.h = f.h ]
    [] f.name = "fps" -> [ fmt EXCEPT !.fps_num = f.num, !.fps_den = f.den ]
    [] f.name = "format" -> [ fmt EXCEPT !.pix_fmt = f.pix_fmt ]
    [] f.name = "setfield" -> [ fmt EXCEPT !.field = f.mode ]
    [] OTHER -> fmt

RECURSIVE ApplyChain(_, _)
ApplyChain(chain, fmt) ==
  IF chain = << >> THEN fmt
  ELSE ApplyChain(Tail(chain), ApplyFilter(Head(chain), fmt))

InputFormat(inp) ==
  [ w |-> inp.w, h |-> inp.h, fps_num |-> inp.fps_num, fps_den |-> inp.fps_den,
    pix_fmt |-> inp.pix_fmt, field |-> inp.field ]

InputIndex(label) ==
  CASE label = "0:v" -> 1 [] label = "1:v" -> 2 [] label = "2:v" -> 3

StageFormat(cmd, label) ==
  LET f == Stage(cmd.filter_complex, label)
  IN  ApplyChain(f.chain, InputFormat(cmd.inputs[InputIndex(f.ins[1])]))

ProgramFormat ==
  [ w |-> 1920, h |-> 1080, fps_num |-> 30000, fps_den |-> 1001,
    pix_fmt |-> "yuv422p", field |-> "tff" ]

StagesConverge ==
  \A l \in { "slate", "black", "main" } : StageFormat(mxf_cmd, l) = ProgramFormat

\* C6 as stated: the three stages reach the program format and the composer
\* validates that they match.
C6_Original ==
  mxf_cmd.built =>
    /\ StagesConverge
    /\ { "pix_fmt", "field", "size", "rate" } \subseteq ComposerChecks

\* C6: the slate, black and main stages fed to the video concat all declare
\* yuv422p, top field first, 1920x1080 and 30000/1001, for every metadata and
\* every duration fragment; this holds by construction of the three chains
\* and of the black input, the composer compares nothing.
C6_StagesConverge ==
  mxf_cmd.built => StagesConverge /\ ComposerChecks = { }

C6_Witness ==
  /\ mxf_cmd.built
  /\ IsPadAdjust(Stage(mxf_cmd.filter_complex, "main").chain)
  /\ StageFormat(mxf_cmd, "black") = StageFormat(mxf_cmd, "main")

\* The sample rate and channel layout an audio fragment declares.
AudioFormat(f) ==
  IF Count(f.chain, "anullsrc") = 1
  THEN [ r |-> FilterOf(f.chain, "anullsrc").r, cl |-> FilterOf(f.chain, "anullsrc").cl ]
  ELSE [ r |-> IF Count(f.chain, "aresample") = 1
               THEN FilterOf(f.chain, "aresample").r ELSE 0,
         cl |-> IF Count(f.chain, "pan") = 1
                THEN FilterOf(f.chain, "pan").cl ELSE "source" ]

\* C7: the lead-in silence is emitted in all three variants, with 4 channels
\* at 48000 Hz and the lead-in duration, and the [amain] fragment it is
\* concatenated with declares the same layout and rate.
C7_LeadInSilence ==
  mxf_cmd.built =>
    LET g == mxf_cmd.filter_complex
    IN  /\ Cardinality(Producers(g, "silence")) = 1
        /\ IsSilenceOnly(Stage(g, "silence"))
        /\ Stage(g, "silence").chain[1].d = SlateDuration + BlackDuration
        /\ AudioFormat(Stage(g, "silence")) = [ r |-> 48000, cl |-> "4c" ]
        /\ AudioFormat(Stage(g, "amain")) = AudioFormat(Stage(g, "silence"))

C7_Witness ==
  /\ mxf_cmd.built
  /\ metadata.has_audio
  /\ metadata.audio_channels = 2
  /\ AudioFormat(Stage(mxf_cmd.filter_complex, "amain")) = [ r |-> 48000, cl |-> "4c" ]

\* ---------------------------------------------------------- bitrate budget
\* C8: for every positive duration video_kbps is
\* max(500, min(5000, floor(56000 / duration) - 160)), computed without
\* unsigned underflow, so it lies in [500, 5000]; duration 60 gives 773.
C8_BitrateFormula ==
  /\ pc # "panicked"
  /\ (agency_cmd.built /\ metadata.duration_secs > 0) =>
       /\ agency_cmd.b_v =
            Max(500, Min(5000, (56000 \div metadata.duration_secs) - 160))
       /\ agency_cmd.b_v >= 500 /\ agency_cmd.b_v <= 5000
       /\ metadata.duration_secs = 60 => agency_cmd.b_v = 773

C8_Witness ==
  /\ agency_cmd.built
  /\ metadata.duration_secs = 351
  /\ agency_cmd.b_v = 500

\* C9: the video bitrate is non-increasing in the duration: every shorter
\* positive duration gets at least the bitrate of this job.
C9_BitrateMonotone ==
  (agency_cmd.built /\ metadata.duration_secs > 0) =>
    \A d1 \in 1 .. metadata.duration_secs : VideoKbps(d1) >= agency_cmd.b_v

C9_Witness ==
  /\ agency_cmd.built
  /\ metadata.duration_secs = 60
  /\ VideoKbps(59) > agency_cmd.b_v

\* C10: with duration_secs = 0 nothing is divided, the bitrate is the
\* fallback 3000 kbps, which the clamp leaves alone, and the job ends as
\* ffmpeg ends, never in a panic or an error of the budget.
C10_ZeroDurationFallback ==
  metadata.duration_secs = 0 =>
    /\ pc # "panicked"
    /\ pc = "done" => agency_cmd.built
    /\ agency_cmd.built =>
         /\ agency_cmd.b_v = 3000
         /\ agency_cmd.b_v = FallbackKbps

C10_Witness ==
  /\ metadata.duration_secs = 0
  /\ pc = "done"
  /\ agency_cmd.b_v = 3000

\* C18: the agency encoder gets the computed video_kbps as its target
\* bitrate, exactly twice it as max rate and exactly four times it as buffer
\* size, over the whole clamp range and for the fallback.
C18_RatePolicy ==
  agency_cmd.built =>
    /\ agency_cmd.b_v = VideoKbps(metadata.duration_secs)
    /\ agency_cmd.b_v \in MinKbps .. MaxKbps
    /\ agency_cmd.maxrate = 2 * agency_cmd.b_v
    /\ agency_cmd.bufsize = 4 * agency_cmd.b_v

C18_Witness ==
  /\ agency_cmd.built
  /\ metadata.duration_secs = 0
  /\ agency_cmd.b_v = 3000
  /\ agency_cmd.maxrate = 6000
  /\ agency_cmd.bufsize = 12000

\* ================================================ registration resolver
\* Option<T>: None is the empty tuple, Some(x) the tuple of x.
None == << >>

Some(x) == << x >>

\* Strings are TLA+ strings; Char(s, i) is the one-character string at i.
Char(s, i) == SubSeq(s, i, i)

Digits == { "0", "1", "2", "3", "4", "5", "6", "7", "8", "9" }

DigitValue(c) ==
  CASE c = "0" -> 0 [] c = "1" -> 1 [] c = "2" -> 2 [] c = "3" -> 3
    [] c = "4" -> 4 [] c = "5" -> 5 [] c = "6" -> 6 [] c = "7" -> 7
    [] c = "8" -> 8 [] c = "9" -> 9

RECURSIVE DecimalValue(_)
DecimalValue(s) ==
  IF Len(s) = 0 THEN 0
  ELSE 10 * DecimalValue(SubSeq(s, 1, Len(s) - 1)) + DigitValue(Char(s, Len(s)))

\* str::parse::<u32>: an optional '+', then one or more decimal digits.  The
\* strings of the model are too short to exceed u32::MAX.
ParseU32(s) ==
  LET body == IF Len(s) > 0 /\ Char(s, 1) = "+" THEN SubSeq(s, 2, Len(s)) ELSE s
  IN  IF Len(body) = 0 \/ \E i \in 1 .. Len(body) : Char(body, i) \notin Digits
      THEN None
      ELSE Some(DecimalValue(body))

\* The last position of character c in s, 0 when there is none.
LastIndexOf(s, c) ==
  LET at == { i \in 1 .. Len(s) : Char(s, i) = c }
  IN  IF at = { } THEN 0 ELSE CHOOSE i \in at : \A j \in at : j <= i

\* Path::new(name).file_stem() of a name without directory, with the
\* unwrap_or(filename) of the caller: the part before the last '.', the whole
\* name when it has no '.', only a leading '.', or names no file.
FileStem(name) ==
  LET dot == LastIndexOf(name, ".")
  IN  IF dot <= 1 \/ name = ".." THEN name ELSE SubSeq(name, 1, dot - 1)

\* stem.rsplit('_').next(): what follows the last '_', the whole stem when
\* it has none.
LastSegment(stem) == SubSeq(stem, LastIndexOf(stem, "_") + 1, Len(stem))

\* Mutant of extract_code_from_filename: the extension is not taken off.
extract_code_from_filename_with_extension(filename) ==
  ParseU32(LastSegment(filename))

extract_code_from_filename(filename) ==
  LET stem == FileStem(filename)
  IN  ParseU32(LastSegment(stem))

\* Mutant of lookup_registro: the offset retry starts at 50.
lookup_registro_from_50(code, table) ==
  IF code \in DOMAIN table
  THEN Some(table[code])
  ELSE IF code >= 50
       THEN IF code - 40 \in DOMAIN table THEN Some(table[code - 40]) ELSE None
       ELSE None

lookup_registro(code, table) ==
  IF code \in DOMAIN table
  THEN Some(table[code])
  ELSE IF code > 50
       THEN IF code - 40 \in DOMAIN table THEN Some(table[code - 40]) ELSE None
       ELSE None

\* load_codes: the keys of [codes] that parse as u32, collected into a
\* HashMap<u32, String>.  Keys that denote the same number overwrite each
\* other in the iteration order of the HashMap read from the file, which is
\* not fixed: every choice of the surviving value is a possible result.
ParsedKeys(file) == { k \in DOMAIN file : ParseU32(k) # None }

LoadedCodes(file) == { ParseU32(k)[1] : k \in ParsedKeys(file) }

load_codes(file) ==
  { t \in [ LoadedCodes(file) -> { file[k] : k \in ParsedKeys(file) } ] :
      \A n \in DOMAIN t : \E k \in ParsedKeys(file) : ParseU32(k) = Some(n) /\ t[n] = file[k] }

\* ---------------------------------------------------------------- inputs
NameChars == { "a", "_", ".", "+", "1", "7" }

RECURSIVE StringsUpTo(_)
StringsUpTo(n) ==
  IF n = 0 THEN { "" }
  ELSE LET shorter == StringsUpTo(n - 1)
       IN  shorter \cup { t \o c : t \in shorter, c \in NameChars }

Filenames ==
  StringsUpTo(MaxNameLen) \cup
  { "FEV_PROMO_17.mp4", "FEV_PROMO_5.mp4", "VIDEO_123.mp4", "nocode.mp4",
    "FEV_PROMO_60.mp4", "17.mp4" }

RegOf(k) == "R" \o ToString(k)

KeyPool == { 10, 11, 17, 20, 59, 60 }

Tables == { [ k \in K |-> RegOf(k) ] : K \in SUBSET KeyPool }

KeyStrings == { "17", "017", "+17", "31", "x" }

CodeFiles == { [ k \in K |-> "V" \o k ] : K \in SUBSET KeyStrings }

\* The library and the front-ends at rest.
EncIdle ==
  /\ metadata = << >>
  /\ pc = "idle"
  /\ mxf_cmd = NoCmd
  /\ agency_cmd = NoCmd

FrontIdle ==
  /\ front = "lib"
  /\ codes = << >>
  /\ videos = << >>
  /\ cli = [ at |-> "none" ]
  /\ gui = [ at |-> "none" ]
  /\ workers = << >>
  /\ temp_slate = << >>

RegInit ==
  /\ reg \in { [ task |-> "extract", filename |-> f, done |-> FALSE, out |-> None ] :
                 f \in Filenames }
             \cup
             { [ task |-> "lookup", code |-> c, table |-> t, done |-> FALSE, out |-> None ] :
                 c \in 0 .. MaxCode, t \in Tables }
             \cup
             { [ task |-> "load", file |-> f, done |-> FALSE, out |-> None ] :
                 f \in CodeFiles }
  /\ EncIdle
  /\ FrontIdle

ExtractCode ==
  /\ reg.task = "extract" /\ ~ reg.done
  /\ reg' = [ reg EXCEPT !.done = TRUE, !.out = extract_code_from_filename(reg.filename) ]
  /\ UNCHANGED << encVars, front, codes, videos, cli, gui, workers, temp_slate >>

LookupRegistro ==
  /\ reg.task = "lookup" /\ ~ reg.done
  /\ reg' = [ reg EXCEPT !.done = TRUE, !.out = lookup_registro(reg.code, reg.table) ]
  /\ UNCHANGED << encVars, front, codes, videos, cli, gui, workers, temp_slate >>

\* load_codes on a readable, well-formed codes.toml: Ok(table).
LoadCodes ==
  /\ reg.task = "load" /\ ~ reg.done
  /\ \E t \in load_codes(reg.file) :
       reg' = [ reg EXCEPT !.done = TRUE, !.out = [ ok |-> TRUE, table |-> t ] ]
  /\ UNCHANGED << encVars, front, codes, videos, cli, gui, workers, temp_slate >>

RegNext == ExtractCode \/ LookupRegistro \/ LoadCodes

RegSpec == RegInit /\ [][RegNext]_vars

\* C11: lookup_registro(c, table) is table[c] when c is a key; otherwise,
\* for c > 50, table[c - 40] when that key exists and unresolved when not;
\* otherwise unresolved.  For c <= 50 the offset key is never consulted and
\* the retry is one step, never chained.
C11_LookupRegistro ==
  (reg.task = "lookup" /\ reg.done) =>
    LET c == reg.code
        t == reg.table
        keys == DOMAIN reg.table
    IN  /\ c \in keys => reg.out = Some(t[c])
        /\ (c \notin keys /\ c > 50 /\ c - 40 \in keys) => reg.out = Some(t[c - 40])
        /\ (c \notin keys /\ c > 50 /\ c - 40 \notin keys) => reg.out = None
        /\ (c \notin keys /\ c <= 50) => reg.out = None
        /\ (c = 60 /\ keys = { 20 }) => reg.out = Some(RegOf(20))
        /\ (c = 99 /\ keys = { 17, 20 }) => reg.out = None
        /\ (c = 100 /\ keys = { 20 }) => reg.out = None

C11_Witness ==
  /\ reg.task = "lookup" /\ reg.done
  /\ reg.code = 60
  /\ DOMAIN reg.table = { 20 }
  /\ reg.out = Some("R20")

\* The final segment of the stem, read off the filename: what follows the
\* last '_' in the part before the last '.'.
HasSeparator(stem) == \E i \in 1 .. Len(stem) : Char(stem, i) = "_"

IsFinalSegment(seg, stem) ==
  \E k \in 0 .. Len(stem) :
    /\ k = 0 \/ Char(stem, k) = "_"
    /\ \A i \in k + 1 .. Len(stem) : Char(stem, i) # "_"
    /\ seg = SubSeq(stem, k + 1, Len(stem))

IsStemOf(stem, name) ==
  \/ /\ stem = name
     /\ \A i \in 2 .. Len(name) : Char(name, i) # "."
  \/ /\ stem = name
     /\ name = ".."
  \/ /\ name # ".."
     /\ \E d \in 2 .. Len(name) :
          /\ Char(name, d) = "."
          /\ \A i \in d + 1 .. Len(name) : Char(name, i) # "."
          /\ stem = SubSeq(name, 1, d - 1)

AllDigits(seg) == Len(seg) > 0 /\ \A i \in 1 .. Len(seg) : Char(seg, i) \in Digits

\* seg is the decimal numeral of n: no sign, no leading zero
IsNumeralOf(seg, n) == seg = ToString(n)

\* C12 as stated: a code is extracted only when the stem has a '_' and its
\* final segment is numeric, none otherwise.
C12_Original ==
  (reg.task = "extract" /\ reg.done) =>
    \A stem \in { FileStem(reg.filename) } : \A seg \in { LastSegment(stem) } :
      (reg.out # None) <=> (HasSeparator(stem) /\ AllDigits(seg))

\* C12: the code is read from the final segment of the filename without its
\* extension, the whole stem when there is no '_': a code is extracted
\* exactly when that segment is one or more digits, optionally after a '+',
\* and it is their decimal value (FEV_PROMO_17.mp4 gives 17, nocode.mp4 and
\* a_17.tar.a give none, 17.mp4 gives 17).
C12_ExtractCode ==
  (reg.task = "extract" /\ reg.done) =>
    /\ \E stem \in { SubSeq(reg.filename, 1, d) : d \in 0 .. Len(reg.filename) } :
         \E seg \in { SubSeq(stem, k + 1, Len(stem)) : k \in 0 .. Len(stem) } :
           /\ IsStemOf(stem, reg.filename)
           /\ IsFinalSegment(seg, stem)
           /\ LET body == IF Len(seg) > 0 /\ Char(seg, 1) = "+"
                          THEN SubSeq(seg, 2, Len(seg)) ELSE seg
              IN  IF AllDigits(body)
                  THEN /\ reg.out # None
                       /\ Char(body, 1) # "0" => IsNumeralOf(body, reg.out[1])
                  ELSE reg.out = None
    /\ reg.filename = "FEV_PROMO_17.mp4" => reg.out = Some(17)
    /\ reg.filename = "nocode.mp4" => reg.out = None
    /\ reg.filename = "17.mp4" => reg.out = Some(17)

C12_Witness ==
  /\ reg.task = "extract" /\ reg.done
  /\ reg.filename = "_17.a"
  /\ reg.out = Some(17)

\* Two keys of the file denote the same code.
HasDuplicateCodes(file) ==
  \E k1, k2 \in ParsedKeys(file) : k1 # k2 /\ ParseU32(k1) = ParseU32(k2)

\* C19: a table file in which two keys denote the same integer code is
\* rejected when it is loaded; load_codes never returns a table in which one
\* of the duplicates was dropped or overwritten.
C19_DuplicatesRejected ==
  (reg.task = "load" /\ reg.done /\ HasDuplicateCodes(reg.file)) => ~ reg.out.ok

\* ================================================================ prober
\* What ffprobe printed for a file: the exit status, whether the JSON has a
\* streams array, the first video stream (its width, height and frame-rate
\* strings), the first audio stream (its channel count) and the duration
\* strings of the format and of the video stream.  A duration string is
\* the f64 it parses to, in ticks, or a text that does not parse.
Duration(ticks) == [ parses |-> TRUE, ticks |-> ticks ]

NotANumber == [ parses |-> FALSE, ticks |-> 0 ]

GoodProbe(ticks, audio, channels) ==
  [ status |-> TRUE, streams |-> TRUE, video_stream |-> TRUE,
    width |-> Some(1920), height |-> Some(1080),
    r_frame_rate |-> Some("30000/1001"), avg_frame_rate |-> None,
    audio_stream |-> audio, channels |-> channels,
    format_duration |-> Some(Duration(ticks)), stream_duration |-> None ]

\* The first position of character c in s, 0 when there is none.
FirstIndexOf(s, c) ==
  LET at == { i \in 1 .. Len(s) : Char(s, i) = c }
  IN  IF at = { } THEN 0 ELSE CHOOSE i \in at : \A j \in at : i <= j

\* str::parse::<f64> followed by round() on a plain decimal (an optional
\* '+', digits, an optional '.' and digits, one digit at least); the texts
\* of the model have no exponent and name no infinity.
ParseAndRound(s) ==
  LET body == IF Len(s) > 0 /\ Char(s, 1) = "+" THEN SubSeq(s, 2, Len(s)) ELSE s
      dot == FirstIndexOf(body, ".")
      int == IF dot = 0 THEN body ELSE SubSeq(body, 1, dot - 1)
      frac == IF dot = 0 THEN "" ELSE SubSeq(body, dot + 1, Len(body))
      digits == int \o frac
  IN  IF Len(digits) = 0 \/ \E i \in 1 .. Len(digits) : Char(digits, i) \notin Digits
      THEN None
      ELSE Some(DecimalValue(int) +
                (IF Len(frac) > 0 /\ DigitValue(Char(frac, 1)) >= 5 THEN 1 ELSE 0))

parse_frame_rate(out) ==
  LET rate == IF out.r_frame_rate # None THEN out.r_frame_rate ELSE out.avg_frame_rate
  IN  IF rate = None
      THEN None
      ELSE LET rate_str == rate[1]
               slash == FirstIndexOf(rate_str, "/")
               n == ParseU32(SubSeq(rate_str, 1, slash - 1))
               d == ParseU32(SubSeq(rate_str, slash + 1, Len(rate_str)))
               fps == ParseAndRound(rate_str)
           IN  IF slash > 0
               THEN IF n = None \/ d = None THEN None ELSE Some(<< n[1], d[1] >>)
               ELSE IF fps = None THEN None ELSE Some(<< fps[1], 1 >>)

\* The field of VideoMetadata that keeps the parsed duration before it is
\* rounded.
DurationRaw(parsed) == parsed

Failed(why) == [ ok |-> FALSE, error |-> why ]

\* Mutant of probe: the cast to u64 without the round().
probe_truncating(out) ==
  LET duration_str == IF out.format_duration # None
                      THEN out.format_duration ELSE out.stream_duration
  IN  IF ~ out.status THEN Failed("FFprobe retornou erro")
      ELSE IF ~ out.streams THEN Failed("Campo 'streams' nao encontrado")
      ELSE IF ~ out.video_stream THEN Failed("Nenhum stream de video encontrado")
      ELSE IF out.width = None THEN Failed("Campo 'width' nao encontrado")
      ELSE IF out.height = None THEN Failed("Campo 'height' nao encontrado")
      ELSE IF parse_frame_rate(out) = None THEN Failed("Frame rate")
      ELSE IF duration_str = None THEN Failed("Duracao nao encontrada")
      ELSE IF ~ duration_str[1].parses THEN Failed("Falha ao parsear duracao")
      ELSE [ ok |-> TRUE,
             meta |-> [ duration_secs |-> duration_str[1].ticks \div Unit,
                        duration_raw |-> DurationRaw(duration_str[1].ticks),
                        has_audio |-> out.audio_stream,
                        audio_channels |->
                          IF ~ out.audio_stream THEN 0
                          ELSE IF out.channels = None THEN 2 ELSE out.channels[1] ] ]

probe(out) ==
  LET duration_str == IF out.format_duration # None
                      THEN out.format_duration ELSE out.stream_duration
  IN  IF ~ out.status THEN Failed("FFprobe retornou erro")
      ELSE IF ~ out.streams THEN Failed("Campo 'streams' nao encontrado")
      ELSE IF ~ out.video_stream THEN Failed("Nenhum stream de video encontrado")
      ELSE IF out.width = None THEN Failed("Campo 'width' nao encontrado")
      ELSE IF out.height = None THEN Failed("Campo 'height' nao encontrado")
      ELSE IF parse_frame_rate(out) = None THEN Failed("Frame rate")
      ELSE IF duration_str = None THEN Failed("Duracao nao encontrada")
      ELSE IF ~ duration_str[1].parses THEN Failed("Falha ao parsear duracao")
      ELSE [ ok |-> TRUE,
             meta |-> [ duration_secs |-> RoundSecs(duration_str[1].ticks),
                        duration_raw |-> DurationRaw(duration_str[1].ticks),
                        has_audio |-> out.audio_stream,
                        audio_channels |->
                          IF ~ out.audio_stream THEN 0
                          ELSE IF out.channels = None THEN 2 ELSE out.channels[1] ] ]

\* ----------------------------------------------------------------- files
File(name, out) == [ filename |-> name, ffprobe |-> out ]

\* The outputs probe rejects, one for each check it makes.
BadProbes ==
  LET good == GoodProbe(10 * Unit, TRUE, Some(2))
  IN  { [ good EXCEPT !.status = FALSE ],
        [ good EXCEPT !.streams = FALSE ],
        [ good EXCEPT !.video_stream = FALSE ],
        [ good EXCEPT !.width = None ],
        [ good EXCEPT !.height = None ],
        [ good EXCEPT !.r_frame_rate = None ],
        [ good EXCEPT !.r_frame_rate = Some("x/1") ],
        [ good EXCEPT !.r_frame_rate = Some("abc") ],
        [ good EXCEPT !.format_duration = None ],
        [ good EXCEPT !.format_duration = Some(NotANumber),
                      !.stream_duration = Some(Duration(10 * Unit)) ] }

\* Outputs probe accepts through its fallbacks.
OddProbes ==
  LET good == GoodProbe(10 * Unit, TRUE, Some(2))
  IN  { [ good EXCEPT !.r_frame_rate = None, !.avg_frame_rate = Some("29.97") ],
        [ good EXCEPT !.format_duration = None,
                      !.stream_duration = Some(Duration(10 * Unit + TieStep)) ],
        [ good EXCEPT !.channels = None ] }

ProbeOffsets == Offsets \cup { Unit \div 2 - 1, Unit \div 2 + 1, 1 - Unit \div 2, -1 - Unit \div 2 }

\* One well-named file for each probed duration, and one for each output.
ProbeFiles ==
  { File("a_17.a", GoodProbe(s * Unit + o, TRUE, Some(2))) :
      s \in 1 .. MaxProbeSecs, o \in ProbeOffsets }
  \cup
  { File("a_17.a", GoodProbe(o, TRUE, Some(2))) : o \in { x \in ProbeOffsets : x >= 0 } }
  \cup
  { File("a_17.a", out) : out \in BadProbes \cup OddProbes }

\* The files of the batches: a code in the table, a code in the table after
\* the offset, a code in neither place, no code, and a file ffprobe can not
\* read.
BatchFiles ==
  { File("a_17.a", GoodProbe(10 * Unit, TRUE, Some(2))),
    File("a_71.a", GoodProbe(3 * Unit + TieStep, FALSE, None)),
    File("a_77.a", GoodProbe(2 * Unit - TieStep, TRUE, Some(4))),
    File("nocode", GoodProbe(0, TRUE, Some(1))),
    File("b_17.a", [ GoodProbe(10 * Unit, TRUE, Some(2)) EXCEPT !.video_stream = FALSE ]) }

RECURSIVE ListsUpTo(_, _)
ListsUpTo(S, n) ==
  IF n = 0 THEN { << >> }
  ELSE LET shorter == ListsUpTo(S, n - 1)
       IN  shorter \cup { Append(l, x) : l \in shorter, x \in S }

\* codes.toml of the installation.
AppCodesFile == [ k \in { "17", "31", "x" } |-> "R" \o k ]

\* What the operator types at a prompt.
StdinLines == { "", " ", " R9 " }

RECURSIVE StrTrim(_)
StrTrim(s) ==
  IF Len(s) = 0 THEN s
  ELSE IF Char(s, 1) = " " THEN StrTrim(SubSeq(s, 2, Len(s)))
  ELSE IF Char(s, Len(s)) = " " THEN StrTrim(SubSeq(s, 1, Len(s) - 1))
  ELSE s

\* ------------------------------------------------------------------- CLI
\* ask_registro and ask_registro_manual: the line read, trimmed; an empty
\* one is an error.
ask_registro(line) ==
  LET registro == StrTrim(line)
  IN  IF registro = "" THEN Failed("Registro nao pode ser vazio")
      ELSE [ ok |-> TRUE, registro |-> registro ]

\* Mutant of resolve_registro: the prompt shows the code after the offset.
resolve_registro_shows_offset(filename, table, line) ==
  LET code == extract_code_from_filename(filename)
  IN  IF code # None
      THEN LET found == lookup_registro(code[1], table)
           IN  IF found # None
               THEN [ branch |-> "resolved", shown |-> None,
                      result |-> [ ok |-> TRUE, registro |-> found[1] ] ]
               ELSE [ branch |-> "ask_registro",
                      shown |-> Some(IF code[1] > 50 THEN code[1] - 40 ELSE code[1]),
                      result |-> ask_registro(line) ]
      ELSE [ branch |-> "ask_registro_manual", shown |-> None,
             result |-> ask_registro(line) ]

\* resolve_registro: the result, the branch taken and the code shown to the
\* operator.
resolve_registro(filename, table, line) ==
  LET code == extract_code_from_filename(filename)
  IN  IF code # None
      THEN LET found == lookup_registro(code[1], table)
           IN  IF found # None
               THEN [ branch |-> "resolved", shown |-> None,
                      result |-> [ ok |-> TRUE, registro |-> found[1] ] ]
               ELSE [ branch |-> "ask_registro", shown |-> Some(code[1]),
                      result |-> ask_registro(line) ]
      ELSE [ branch |-> "ask_registro_manual", shown |-> None,
             result |-> ask_registro(line) ]

NoJob == [ branch |-> "none", shown |-> None, registro |-> None ]

CliStart ==
  [ at |-> "read", i |-> 0, calls |-> << >>, errors |-> << >>,
    result |-> "running", job |-> NoJob ]

GuiOff == [ at |-> "none" ]

CliInit(lists) ==
  /\ front = "cli"
  /\ videos \in lists
  /\ cli = CliStart
  /\ gui = GuiOff
  /\ workers = << >>
  /\ temp_slate = None
  /\ codes = << >>
  /\ reg = [ task |-> "none" ]
  /\ EncIdle

\* run_batch up to its loop: the list file is read and parsed.
BatchRead(ok) ==
  /\ front = "cli" /\ cli.at = "read"
  /\ cli' = IF ok THEN [ cli EXCEPT !.at = "loop" ]
            ELSE [ cli EXCEPT !.at = "returned", !.result = "list_error" ]
  /\ UNCHANGED << encVars, reg, front, codes, videos, gui, workers, temp_slate >>

\* The loop takes the next video and calls process_video, which checks
\* ffmpeg and the file and loads the configuration.
ProcessVideo(ok) ==
  /\ front = "cli" /\ cli.at = "loop" /\ cli.i < Len(videos)
  /\ cli' = [ cli EXCEPT !.at = "job", !.i = cli.i + 1, !.job = NoJob,
                !.calls = Append(cli.calls, [ video |-> cli.i + 1, result |-> "running" ]) ]
  /\ metadata' = << >>
  /\ mxf_cmd' = NoCmd
  /\ agency_cmd' = NoCmd
  /\ IF ok
     THEN /\ \E t \in load_codes(AppCodesFile) : codes' = t
          /\ pc' = "probe"
     ELSE /\ pc' = "failed"
          /\ UNCHANGED codes
  /\ UNCHANGED << reg, front, videos, gui, workers, temp_slate >>

Probe ==
  /\ front = "cli" /\ pc = "probe"
  /\ LET r == probe(videos[cli.i].ffprobe)
     IN  IF r.ok
         THEN /\ metadata' = r.meta
              /\ pc' = "resolve"
         ELSE /\ pc' = "failed"
              /\ UNCHANGED metadata
  /\ UNCHANGED << mxf_cmd, agency_cmd >>
  /\ UNCHANGED appVars

ResolveRegistro(line) ==
  /\ front = "cli" /\ pc = "resolve"
  /\ LET r == resolve_registro(videos[cli.i].filename, codes, line)
     IN  /\ cli' = [ cli EXCEPT !.job =
                       [ branch |-> r.branch, shown |-> r.shown,
                         registro |-> IF r.result.ok THEN Some(r.result.registro) ELSE None ] ]
         /\ pc' = IF r.result.ok THEN "slate" ELSE "failed"
  /\ UNCHANGED << metadata, mxf_cmd, agency_cmd >>
  /\ UNCHANGED << reg, front, codes, videos, gui, workers, temp_slate >>

\* find_template, generate_slate and create_dir_all: the template is
\* missing or the slate can not be written ("no_slate"), the slate is
\* written and the output directory can not be made ("no_dir"), or both
\* succeed.
GenerateSlate(outcome) ==
  /\ front = "cli" /\ pc = "slate"
  /\ temp_slate' = IF outcome = "no_slate" THEN temp_slate ELSE Some(cli.job.registro[1])
  /\ pc' = IF outcome = "ok" THEN "ready" ELSE "failed"
  /\ UNCHANGED << metadata, mxf_cmd, agency_cmd >>
  /\ UNCHANGED << reg, front, codes, videos, cli, gui, workers >>

\* Where a job stands after one of its steps returned an error.
JobFailed == { "failed", "failed_agency_dir" }

\* create_dir_all of the agency directory fails.
AgencyDirFails ==
  /\ front = "cli" /\ pc = "mxf_done"
  /\ pc' = "failed_agency_dir"
  /\ UNCHANGED << metadata, mxf_cmd, agency_cmd >>
  /\ UNCHANGED appVars

\* Mutant of Cleanup: the temporary slate is removed on the error paths too.
Cleanup_on_failure(removed) ==
  /\ front = "cli" /\ pc \in { "done" } \cup JobFailed /\ temp_slate # None
  /\ temp_slate' = IF removed THEN None ELSE temp_slate
  /\ pc' = IF pc = "done" THEN "returned" ELSE pc
  /\ UNCHANGED << metadata, mxf_cmd, agency_cmd >>
  /\ UNCHANGED << reg, front, codes, videos, cli, gui, workers >>

\* let _ = remove_file(&temp_slate): the result is ignored.
Cleanup(removed) ==
  /\ front = "cli" /\ pc = "done"
  /\ temp_slate' = IF removed THEN None ELSE temp_slate
  /\ pc' = "returned"
  /\ UNCHANGED << metadata, mxf_cmd, agency_cmd >>
  /\ UNCHANGED << reg, front, codes, videos, cli, gui, workers >>

\* Mutant of JobEnd: the error of the item leaves run_batch, as with `?`.
JobEnd_propagating ==
  /\ front = "cli" /\ cli.at = "job" /\ pc \in { "returned" } \cup JobFailed
  /\ cli' = IF pc \in JobFailed
            THEN [ cli EXCEPT !.at = "returned", !.result = "err",
                     !.calls[cli.i].result = "err" ]
            ELSE [ cli EXCEPT !.at = "loop", !.calls[cli.i].result = "ok" ]
  /\ pc' = "idle"
  /\ UNCHANGED << metadata, mxf_cmd, agency_cmd >>
  /\ UNCHANGED << reg, front, codes, videos, gui, workers, temp_slate >>

\* process_video has returned to the loop: an error is pushed on errors.
JobEnd ==
  /\ front = "cli" /\ cli.at = "job" /\ pc \in { "returned" } \cup JobFailed
  /\ cli' = [ cli EXCEPT !.at = "loop",
                !.calls[cli.i].result = IF pc \in JobFailed THEN "err" ELSE "ok",
                !.errors = IF pc \in JobFailed THEN Append(cli.errors, cli.i) ELSE cli.errors ]
  /\ pc' = "idle"
  /\ UNCHANGED << metadata, mxf_cmd, agency_cmd >>
  /\ UNCHANGED << reg, front, codes, videos, gui, workers, temp_slate >>

\* After the loop the errors are listed and run_batch returns Ok(()).
BatchReturn ==
  /\ front = "cli" /\ cli.at = "loop" /\ cli.i = Len(videos)
  /\ cli' = [ cli EXCEPT !.at = "returned", !.result = "ok" ]
  /\ UNCHANGED << encVars, reg, front, codes, videos, gui, workers, temp_slate >>

CliNext ==
  \/ \E ok \in BOOLEAN : BatchRead(ok)
  \/ \E ok \in BOOLEAN : ProcessVideo(ok)
  \/ Probe
  \/ \E line \in StdinLines : ResolveRegistro(line)
  \/ \E outcome \in { "ok", "no_slate", "no_dir" } : GenerateSlate(outcome)
  \/ \E ok \in BOOLEAN : Encode(ok)
  \/ \E ok \in BOOLEAN : EncodeAgency(ok)
  \/ AgencyDirFails
  \/ \E removed \in BOOLEAN : Cleanup(removed)
  \/ JobEnd
  \/ BatchReturn

CliLists == ListsUpTo(BatchFiles, MaxBatch) \cup { << f >> : f \in ProbeFiles }

\* ------------------------------------------------------------------- GUI
\* EncoderApp::new without a video: the table is loaded, or left empty
\* when codes.toml can not be read.  video_path is the index of the chosen
\* file, registro_warning the branch of the warning and the code it shows,
\* result_message the success flag of the message, rx the thread whose
\* channel the receiver belongs to; starts counts the threads spawned.
GuiNew ==
  [ at |-> "open", video_path |-> None, video_meta |-> None, probe_error |-> FALSE,
    registro |-> "", registro_warning |-> None, encoding |-> FALSE,
    result_message |-> None, rx |-> None, starts |-> 0 ]

Warning(kind, shown) == [ kind |-> kind, shown |-> shown ]

\* Mutant of load_video: a failed probe keeps the metadata of the file
\* loaded before.
load_video_stale_meta(g, table, files, i) ==
  LET r == probe(files[i].ffprobe)
      code == extract_code_from_filename(files[i].filename)
      found == IF code = None THEN None ELSE lookup_registro(code[1], table)
      g1 == [ g EXCEPT !.probe_error = FALSE, !.result_message = None,
                       !.registro_warning = None, !.video_path = Some(i) ]
  IN  IF r.ok
      THEN IF code # None
           THEN IF found # None
                THEN [ g1 EXCEPT !.registro = found[1], !.video_meta = Some(r.meta) ]
                ELSE [ g1 EXCEPT !.registro = "", !.video_meta = Some(r.meta),
                         !.registro_warning = Some(Warning("not_found", code)) ]
           ELSE [ g1 EXCEPT !.registro = "", !.video_meta = Some(r.meta),
                    !.registro_warning = Some(Warning("no_code", None)) ]
      ELSE [ g1 EXCEPT !.probe_error = TRUE ]

load_video(g, table, files, i) ==
  LET r == probe(files[i].ffprobe)
      code == extract_code_from_filename(files[i].filename)
      found == IF code = None THEN None ELSE lookup_registro(code[1], table)
      g1 == [ g EXCEPT !.probe_error = FALSE, !.result_message = None,
                       !.registro_warning = None, !.video_path = Some(i) ]
  IN  IF r.ok
      THEN IF code # None
           THEN IF found # None
                THEN [ g1 EXCEPT !.registro = found[1], !.video_meta = Some(r.meta) ]
                ELSE [ g1 EXCEPT !.registro = "", !.video_meta = Some(r.meta),
                         !.registro_warning = Some(Warning("not_found", code)) ]
           ELSE [ g1 EXCEPT !.registro = "", !.video_meta = Some(r.meta),
                    !.registro_warning = Some(Warning("no_code", None)) ]
      ELSE [ g1 EXCEPT !.probe_error = TRUE, !.video_meta = None ]

\* Mutant of can_encode: the button stays enabled while a thread encodes.
can_encode_while_encoding(g) == g.video_path # None /\ g.video_meta # None

can_encode(g) == g.video_path # None /\ g.video_meta # None /\ ~ g.encoding

\* The thread start_encoding spawns, with what it cloned from the form and
\* its end of the channel.
Worker(g) ==
  [ stage |-> "slate", video |-> g.video_path[1], meta |-> g.video_meta[1],
    registro |-> g.registro, mxf_cmd |-> NoCmd, agency_cmd |-> NoCmd,
    result |-> "running", sent |-> 0, chan |-> << >> ]

start_encoding(g) ==
  IF g.video_path = None \/ g.video_meta = None
  THEN g
  ELSE [ g EXCEPT !.rx = Some(g.starts + 1), !.encoding = TRUE,
                  !.result_message = None, !.starts = g.starts + 1 ]

\* The head of update: try_recv on the receiver, if there is one.
\* Mutant: the receiver is kept after a message.
receive_keeping_rx(g, ws) ==
  IF g.rx # None /\ g.rx[1] \in DOMAIN ws /\ ws[g.rx[1]].chan # << >>
  THEN [ g EXCEPT !.result_message = Some(Head(ws[g.rx[1]].chan) = "Finished"),
                  !.encoding = FALSE ]
  ELSE g

receive(g, ws) ==
  IF g.rx # None /\ g.rx[1] \in DOMAIN ws /\ ws[g.rx[1]].chan # << >>
  THEN [ g EXCEPT !.result_message = Some(Head(ws[g.rx[1]].chan) = "Finished"),
                  !.encoding = FALSE, !.rx = None ]
  ELSE g

\* The threads that still run or whose receiver still exists: a thread that
\* has ended and whose channel is gone leaves nothing behind.
Alive(ws, g) ==
  [ id \in { k \in DOMAIN ws : ws[k].stage # "ended" \/ g.rx = Some(k) } |-> ws[id] ]

\* The videos the file dialog offers.
GuiVideos ==
  << File("a_17.a", GoodProbe(10 * Unit, TRUE, Some(2))),
     File("a_71.a", GoodProbe(3 * Unit + TieStep, FALSE, None)),
     File("a_77.a", GoodProbe(2 * Unit - TieStep, TRUE, Some(4))),
     File("nocode", GoodProbe(0, TRUE, Some(1))),
     File("b_17.a", [ GoodProbe(10 * Unit, TRUE, Some(2)) EXCEPT !.video_stream = FALSE ]),
     File("c_17.a", [ GoodProbe(10 * Unit, TRUE, Some(2)) EXCEPT !.width = None ]),
     File("d_17.a", [ GoodProbe(10 * Unit, TRUE, Some(2)) EXCEPT !.height = None ]),
     File("e_17.a", [ GoodProbe(10 * Unit, TRUE, Some(2)) EXCEPT !.r_frame_rate = None ]),
     File("f_17.a", [ GoodProbe(10 * Unit, TRUE, Some(2)) EXCEPT !.format_duration = None ]) >>

\* What the operator types in the Registro field.
TypedRegistro == { "", "R9" }

GuiEvents ==
  { [ kind |-> "none" ], [ kind |-> "encode" ] }
  \cup { [ kind |-> "select", i |-> i ] : i \in 1 .. Len(GuiVideos) }
  \cup { [ kind |-> "type", text |-> t ] : t \in TypedRegistro }

GuiInit ==
  /\ front = "gui"
  /\ videos = GuiVideos
  /\ codes \in load_codes(AppCodesFile) \cup { << >> }
  /\ gui = GuiNew
  /\ cli = [ at |-> "none" ]
  /\ workers = << >>
  /\ temp_slate = None
  /\ reg = [ task |-> "none" ]
  /\ EncIdle

\* One call of update: the message of the thread is taken if it is there,
\* then the panel is drawn and the event of this frame handled.
Update(ev) ==
  /\ front = "gui"
  /\ LET g1 == receive(gui, workers)
         g2 == CASE ev.kind = "select" -> load_video(g1, codes, videos, ev.i)
                 [] ev.kind = "type" -> [ g1 EXCEPT !.registro = ev.text ]
                 [] ev.kind = "encode" -> start_encoding(g1)
                 [] OTHER -> g1
     IN  /\ ev.kind = "encode" => can_encode(g1) /\ g1.starts < MaxEncodes
         /\ gui' = g2
         /\ workers' = IF g2.starts > gui.starts
                       THEN Alive(workers, g2) @@ (g2.starts :> Worker(g1))
                       ELSE Alive(workers, g2)
  /\ UNCHANGED << encVars, reg, front, codes, videos, cli, temp_slate >>

\* run_encode up to create_dir_all of the output directory.
WorkerSlate(id, outcome) ==
  /\ id \in DOMAIN workers /\ workers[id].stage = "slate"
  /\ temp_slate' = IF outcome = "no_slate" THEN temp_slate ELSE Some(workers[id].registro)
  /\ workers' = [ workers EXCEPT ![id].stage = IF outcome = "ok" THEN "ready" ELSE "failed" ]
  /\ UNCHANGED << encVars, reg, front, codes, videos, cli, gui >>

WorkerEncode(id, ok) ==
  /\ id \in DOMAIN workers /\ workers[id].stage = "ready"
  /\ workers' = [ workers EXCEPT ![id].mxf_cmd = MxfCmd(workers[id].meta),
                                 ![id].stage = IF ok THEN "mxf_done" ELSE "failed" ]
  /\ UNCHANGED << encVars, reg, front, codes, videos, cli, gui, temp_slate >>

WorkerAgencyDirFails(id) ==
  /\ id \in DOMAIN workers /\ workers[id].stage = "mxf_done"
  /\ workers' = [ workers EXCEPT ![id].stage = "failed_agency_dir" ]
  /\ UNCHANGED << encVars, reg, front, codes, videos, cli, gui, temp_slate >>

WorkerEncodeAgency(id, ok) ==
  /\ id \in DOMAIN workers /\ workers[id].stage = "mxf_done"
  /\ workers' =
       IF AgencyCmd(workers[id].meta) = NoCmd
       THEN [ workers EXCEPT ![id].stage = "panicked" ]
       ELSE [ workers EXCEPT ![id].agency_cmd = AgencyCmd(workers[id].meta),
                             ![id].stage = IF ok THEN "done" ELSE "failed" ]
  /\ UNCHANGED << encVars, reg, front, codes, videos, cli, gui, temp_slate >>

WorkerCleanup(id, removed) ==
  /\ id \in DOMAIN workers /\ workers[id].stage = "done"
  /\ temp_slate' = IF removed THEN None ELSE temp_slate
  /\ workers' = [ workers EXCEPT ![id].stage = "returned" ]
  /\ UNCHANGED << encVars, reg, front, codes, videos, cli, gui >>

\* let _ = tx.send(msg): the message is queued when the receiver exists
\* and lost when it was dropped; then the thread ends.
WorkerSend(id) ==
  /\ id \in DOMAIN workers /\ workers[id].stage \in { "returned" } \cup JobFailed
  /\ LET msg == IF workers[id].stage = "returned" THEN "Finished" ELSE "Error"
         ended == [ workers EXCEPT ![id].stage = "ended", ![id].sent = 1,
                      ![id].result = IF workers[id].stage = "returned" THEN "ok" ELSE "err",
                      ![id].chan = IF gui.rx = Some(id) THEN << msg >> ELSE << >> ]
     IN  workers' = Alive(ended, gui)
  /\ UNCHANGED << encVars, reg, front, codes, videos, cli, gui, temp_slate >>

GuiNext ==
  \/ \E ev \in GuiEvents : Update(ev)
  \/ \E id \in 1 .. MaxEncodes :
       \/ \E outcome \in { "ok", "no_slate", "no_dir" } : WorkerSlate(id, outcome)
       \/ \E ok \in BOOLEAN : WorkerEncode(id, ok)
       \/ WorkerAgencyDirFails(id)
       \/ \E ok \in BOOLEAN : WorkerEncodeAgency(id, ok)
       \/ \E removed \in BOOLEAN : WorkerCleanup(id, removed)
       \/ WorkerSend(id)

AppInit == CliInit(CliLists) \/ GuiInit

AppNext == CliNext \/ GuiNext

AppSpec == AppInit /\ [][AppNext]_vars

\* ------------------------------------------------------- a thread that dies
\* The thread unwinds from a panic inside generate_slate (image::open,
\* draw_text_mut and save are library calls): tx is dropped and nothing was
\* sent.  try_recv then answers Disconnected, which update takes as no
\* message.
WorkerPanics(id) ==
  /\ id \in DOMAIN workers /\ workers[id].stage = "slate"
  /\ workers' = Alive([ workers EXCEPT ![id].stage = "ended", ![id].result = "panic" ], gui)
  /\ UNCHANGED << encVars, reg, front, codes, videos, cli, gui, temp_slate >>

\* What a thread does next, whatever it is.
WorkerRuns(id) ==
  \/ \E outcome \in { "ok", "no_slate", "no_dir" } : WorkerSlate(id, outcome)
  \/ \E ok \in BOOLEAN : WorkerEncode(id, ok)
  \/ WorkerAgencyDirFails(id)
  \/ \E ok \in BOOLEAN : WorkerEncodeAgency(id, ok)
  \/ \E removed \in BOOLEAN : WorkerCleanup(id, removed)
  \/ WorkerSend(id)
  \/ WorkerPanics(id)

\* A frame without an event of the operator.
Repaint == Update([ kind |-> "none" ])

GuiFaultNext ==
  \/ GuiNext
  \/ \E id \in 1 .. MaxEncodes : WorkerPanics(id)

\* Every thread runs to its end and update keeps being called.
GuiFaultSpec ==
  /\ GuiInit
  /\ [][GuiFaultNext]_vars
  /\ WF_vars(Repaint)
  /\ \A id \in 1 .. MaxEncodes : WF_vars(WorkerRuns(id))

\* ---------------------------------------------------------------- claims
\* C13: resolve_registro (CLI) and load_video (GUI) take one branch when no
\* code is extracted and another when a code is extracted and not found;
\* the not-found branch shows the code as extracted, never the code after
\* the offset, and a code that resolves takes neither branch.
C13_DistinctFallbacks ==
  /\ (front = "cli" /\ cli.job.branch # "none") =>
       LET code == extract_code_from_filename(videos[cli.i].filename)
           found == IF code = None THEN None ELSE lookup_registro(code[1], codes)
       IN  /\ code = None <=> cli.job.branch = "ask_registro_manual"
           /\ (code # None /\ found = None) <=> cli.job.branch = "ask_registro"
           /\ found # None <=> cli.job.branch = "resolved"
           /\ cli.job.branch = "ask_registro" => cli.job.shown = code
           /\ cli.job.branch # "ask_registro" => cli.job.shown = None
           /\ cli.job.branch = "resolved" => cli.job.registro = found
           /\ videos[cli.i].filename = "a_77.a" => cli.job.shown = Some(77)
           /\ videos[cli.i].filename = "a_71.a" => cli.job.registro = Some("R31")
  /\ (front = "gui" /\ gui.video_meta # None) =>
       LET code == extract_code_from_filename(videos[gui.video_path[1]].filename)
           found == IF code = None THEN None ELSE lookup_registro(code[1], codes)
       IN  /\ code = None <=> gui.registro_warning = Some(Warning("no_code", None))
           /\ (code # None /\ found = None) <=>
                gui.registro_warning = Some(Warning("not_found", code))
           /\ found # None <=> gui.registro_warning = None

C13_Witness ==
  /\ front = "cli"
  /\ cli.job.branch = "ask_registro"
  /\ cli.job.shown = Some(77)
  /\ cli.job.registro = Some("R9")

\* The registration of a file is unresolved: no code in its name, or a code
\* that is not in the table.
Unresolved(file) ==
  LET code == extract_code_from_filename(file.filename)
  IN  code = None \/ lookup_registro(code[1], codes) = None

\* C14: when the registration is unresolved and the manual entry is empty
\* after trimming, the job fails and neither a slate nor an encode is made
\* with the empty registration, at the prompts of the CLI and in the
\* Registro field of the GUI alike.
C14_EmptyRegistroFails ==
  /\ (front = "cli" /\ cli.job.branch \in { "ask_registro", "ask_registro_manual" }
        /\ cli.job.registro = None) =>
       /\ pc \in JobFailed \cup { "idle" }
       /\ ~ mxf_cmd.built /\ ~ agency_cmd.built
  /\ (front = "cli" /\ cli.job.registro # None) => StrTrim(cli.job.registro[1]) # ""
  /\ front = "gui" =>
       \A id \in DOMAIN workers :
         (Unresolved(videos[workers[id].video]) /\ StrTrim(workers[id].registro) = "") =>
           /\ workers[id].stage \in { "slate", "failed", "ended" }
           /\ ~ workers[id].mxf_cmd.built /\ ~ workers[id].agency_cmd.built
           /\ workers[id].stage = "ended" => workers[id].result = "err"

IsErr(call) == call.result = "err"

\* C15: run_batch calls process_video once for every video of the list, in
\* list order, whatever failed before; errors holds exactly the videos whose
\* call failed, in order; run_batch returns Ok and never the error of an
\* item.
C15_BatchContinues ==
  front = "cli" =>
    /\ Len(cli.calls) = cli.i
    /\ \A k \in 1 .. Len(cli.calls) : cli.calls[k].video = k
    /\ LET failed == SelectSeq(cli.calls, IsErr)
       IN  /\ Len(cli.errors) = Len(failed)
           /\ \A k \in 1 .. Len(failed) : cli.errors[k] = failed[k].video
    /\ cli.result \in { "running", "ok", "list_error" }
    /\ cli.at = "returned" <=> cli.result # "running"
    /\ cli.result = "list_error" => cli.calls = << >>
    /\ cli.result = "ok" =>
         /\ cli.i = Len(videos)
         /\ \A k \in 1 .. Len(cli.calls) : cli.calls[k].result \in { "ok", "err" }
    /\ (cli.at = "loop" /\ cli.i < Len(videos)) => ENABLED ProcessVideo(TRUE)

C15_Witness ==
  /\ front = "cli"
  /\ cli.result = "ok"
  /\ Len(videos) = 2
  /\ cli.errors = << 1 >>
  /\ cli.calls[2].result = "ok"

\* The output lacks a video stream, a width, a height, a frame rate or a
\* duration.
MetadataIncomplete(out) ==
  \/ ~ out.video_stream
  \/ out.width = None
  \/ out.height = None
  \/ out.r_frame_rate = None /\ out.avg_frame_rate = None
  \/ out.format_duration = None /\ out.stream_duration = None

\* C16: when the probe fails for a missing video stream, width, height,
\* frame rate or duration, the job ends before a filter graph is built or an
\* encoder run: process_video returns with neither command built, and the
\* GUI keeps video_meta empty, so that no thread is ever started for the
\* file.
C16_ProbeFailureAborts ==
  /\ (front = "cli" /\ cli.at = "job" /\ MetadataIncomplete(videos[cli.i].ffprobe)) =>
       /\ pc \in { "probe", "failed" }
       /\ metadata = << >>
       /\ ~ mxf_cmd.built /\ ~ agency_cmd.built
  /\ (front = "gui" /\ gui.video_path # None
        /\ MetadataIncomplete(videos[gui.video_path[1]].ffprobe)) =>
       gui.video_meta = None
  /\ front = "gui" =>
       \A id \in DOMAIN workers : ~ MetadataIncomplete(videos[workers[id].video].ffprobe)

C16_Witness ==
  /\ front = "gui"
  /\ gui.starts = 1
  /\ gui.video_path = Some(6)
  /\ gui.probe_error
  /\ gui.video_meta = None

\* secs is raw rounded to the nearest second, a tie going up.
IsRounded(m) ==
  /\ 2 * m.duration_secs * Unit <= 2 * m.duration_raw + Unit
  /\ 2 * m.duration_raw + Unit < 2 * m.duration_secs * Unit + 2 * Unit

InFlight(ws) == { id \in DOMAIN ws : ws[id].stage # "ended" }

Pending(g, ws) == g.rx # None /\ g.rx[1] \in DOMAIN ws /\ ws[g.rx[1]].chan # << >>

C21_EncodeReturns == (front = "gui" /\ gui.encoding) ~> (~ gui.encoding)

\* One step of a CLI job keeps the order of process_video.
CliStepOrder ==
  /\ (temp_slate' # temp_slate /\ temp_slate' # None) =>
       /\ pc = "slate"
       /\ ~ mxf_cmd.built /\ ~ agency_cmd.built
       /\ temp_slate' = cli.job.registro
  /\ (~ mxf_cmd.built /\ mxf_cmd'.built) =>
       /\ pc = "ready"
       /\ temp_slate = cli.job.registro
       /\ ~ agency_cmd.built
  /\ (~ agency_cmd.built /\ agency_cmd'.built) =>
       /\ pc = "mxf_done"
       /\ mxf_cmd.built
       /\ temp_slate = cli.job.registro
  /\ pc' = "mxf_done" => pc = "ready"
  /\ pc' = "done" => pc = "mxf_done"
  /\ (temp_slate # None /\ temp_slate' = None) =>
       /\ pc = "done" /\ pc' = "returned"
       /\ mxf_cmd.built /\ agency_cmd.built
  /\ pc' = "returned" => pc = "done"
  /\ pc \in JobFailed =>
       /\ pc' = "idle"
       /\ mxf_cmd' = mxf_cmd /\ agency_cmd' = agency_cmd /\ temp_slate' = temp_slate

\* One step of a GUI thread keeps the order of run_encode.
GuiStepOrder ==
  \A id \in DOMAIN workers \cap DOMAIN workers' :
    LET w == workers[id]
        w2 == workers'[id]
    IN  /\ (w.stage = "slate" /\ w2.stage # "slate" /\ temp_slate' # temp_slate) =>
             /\ temp_slate' = Some(w.registro)
             /\ ~ w.mxf_cmd.built /\ ~ w.agency_cmd.built
        /\ (~ w.mxf_cmd.built /\ w2.mxf_cmd.built) =>
             /\ w.stage = "ready"
             /\ temp_slate = Some(w.registro)
             /\ ~ w.agency_cmd.built
        /\ (~ w.agency_cmd.built /\ w2.agency_cmd.built) =>
             /\ w.stage = "mxf_done"
             /\ w.mxf_cmd.built
             /\ temp_slate = Some(w.registro)
        /\ (w2.stage = "ready" /\ w.stage # "ready") => w.stage = "slate"
        /\ (w2.stage = "mxf_done" /\ w.stage # "mxf_done") => w.stage = "ready"
        /\ (w2.stage = "done" /\ w.stage # "done") => w.stage = "mxf_done"
        /\ (w2.stage = "returned" /\ w.stage # "returned") => w.stage = "done"
        /\ w.stage \in JobFailed =>
             /\ w2.stage \in JobFailed \cup { "ended" }
             /\ w2.mxf_cmd = w.mxf_cmd /\ w2.agency_cmd = w.agency_cmd
             /\ temp_slate' = temp_slate

GuiSlateRemoval ==
  (temp_slate # None /\ temp_slate' = None) =>
    \E id \in DOMAIN workers \cap DOMAIN workers' :
      /\ workers[id].stage = "done" /\ workers'[id].stage = "returned"
      /\ workers[id].mxf_cmd.built /\ workers[id].agency_cmd.built

GuiSlateWritten ==
  (temp_slate' # temp_slate /\ temp_slate' # None) =>
    \E id \in DOMAIN workers : workers[id].stage = "slate" /\ temp_slate' = Some(workers[id].registro)

\* C22: in one job, process_video in the CLI and run_encode in the GUI,
\* the slate is generated, then the MXF is encoded, then the preview, then
\* the temporary slate is removed; a step that fails ends the job, so the
\* preview is never encoded after a failed MXF encode and the slate file
\* is removed only after both encodes succeeded.
C22_StepOrder ==
  [][ /\ front = "cli" => CliStepOrder
      /\ front = "gui" => (GuiStepOrder /\ GuiSlateRemoval /\ GuiSlateWritten) ]_vars

C22_Witness ==
  /\ front = "cli"
  /\ pc = "returned"
  /\ mxf_cmd.built /\ agency_cmd.built
  /\ temp_slate = None
  /\ cli.errors = << 1 >>

\* C23: the silence that leads the audio in lasts as long as the slate and
\* the black inputs together, 5 + 2 = 7 s, in every job; without source
\* audio the two silences add up to 7 + duration_secs, the total encode()
\* reports.
C23_LeadInsAgree ==
  mxf_cmd.built =>
    LET g == mxf_cmd.filter_complex
        silence == Stage(g, "silence").chain[1]
        amain == Stage(g, "amain").chain[1]
    IN  /\ silence.name = "anullsrc"
        /\ silence.d = mxf_cmd.inputs[1].t + mxf_cmd.inputs[2].t
        /\ silence.d = 7
        /\ mxf_cmd.total = 7 + metadata.duration_secs
        /\ ~ metadata.has_audio =>
             /\ amain.name = "anullsrc"
             /\ silence.d + amain.d = mxf_cmd.total

C23_Witness ==
  /\ mxf_cmd.built
  /\ ~ metadata.has_audio
  /\ metadata.duration_secs = 30
  /\ mxf_cmd.total = 37
  /\ Stage(mxf_cmd.filter_complex, "amain").chain[1].d = 30

\* The correction a chain holds for metadata m stays within half a second:
\* a pad of 0.0010 to 0.5000 s, a trim that removes 0.001 to 0.5 s.
WithinHalfSecond(chain, m) ==
  \A i \in 1 .. Len(chain) :
    /\ chain[i].name = "tpad" =>
         /\ chain[i].stop_duration >= 10
         /\ chain[i].stop_duration <= 5000
    /\ chain[i].name = "trim" =>
         LET removed == m.duration_raw - chain[i].duration * Unit
         IN  /\ removed * 1000 >= Unit
             /\ 2 * removed <= Unit

====
